---- MODULE Spec2Model ----
(***************************************************************************)
(* A model of src/app.js: the drawing-to-skeleton extraction pipeline      *)
(* (processDrawingImage, replaceWithSkeleton) and the surface-anchored     *)
(* placement loop (render-loop callback, window click handler, popIn).     *)
(*                                                                         *)
(* Numbers.  The code computes in IEEE doubles; the model computes the     *)
(* same expressions exactly, in fixed point:                               *)
(*   - image lengths in centipixels (1/100 px), so that the fractions      *)
(*     0.25, 0.5, 0.2, 0.6, 0.4 of a width or height are integers;         *)
(*   - world lengths in micrometres, so that pixel * 0.001 (metres) is     *)
(*     centipixel * 10 and every half of it is an integer;                 *)
(*   - a scale s as s * ScaleDen, ScaleDen = 1000 * Grain^3, so that       *)
(*     0.001 + (1 - 0.001) * (1 - (1 - e)^3) is an integer for every       *)
(*     sampled e = k / Grain;                                              *)
(*   - an angle as a multiple of 2*pi / RandDen.                           *)
(* Time is counted in clock samples of dur / Grain ms (dur = 220 ms).      *)
(*                                                                         *)
(* Environment.  Each handler of app.js runs as one step, up to its next   *)
(* await; the listeners of one click and the callbacks of one animation    *)
(* frame run back to back.  The time t an animation callback is given is   *)
(* never before the performance.now() its popIn read (t - start >= 0).     *)
(* A continuation of an await on a value that is already settled (lines    *)
(* 169 and 185) is a microtask: it runs before any other handler.          *)
(*                                                                         *)
(* Spec is the page from its load; ExtractSpec runs the extraction on      *)
(* every image of a bounded set; FairSpec is Spec with the scheduling of   *)
(* the browser.                                                            *)
(***************************************************************************)
EXTENDS Integers, Sequences, FiniteSets, Bags, TLC

VARIABLES
    uploadedImage,   \* app.js:23   <<>> (null) or <<image>>
    startARBtnDisabled, \* startARBtn.disabled
    errorMsg,        \* errorMsgEl.textContent ("" when cleared)
    loading,         \* the selections whose load is pending, and the most recent one after them
    cvReady,         \* app.js:28
    navigatorXR,     \* whether navigator.xr.isSessionSupported exists on this device
    scene,           \* app.js:15   0 (undefined) or the Scene: the n-th one created
    renderer,        \* app.js:15   0 (undefined) or the WebGLRenderer: the n-th one created
    reticle,         \* app.js:16   the current reticle Mesh
    model,           \* app.js:17   0 (undefined) or the index in rigs of the current rig
    xrSession,       \* app.js:18   0 (undefined) or the XRSession: the n-th one obtained
    rigs,            \* the rig objects (default boxes and groups) still observable
    inst,            \* the invocations of the Start-AR click handler that are awaiting (a bag)
    loops,           \* renderers on which setAnimationLoop has installed the callback
    clickListeners,  \* number of listeners added with window.addEventListener('click')
    dispatch,        \* click listeners still to run for the click being dispatched
    rafQueue,        \* callbacks registered with requestAnimationFrame
    frameCallbacks,  \* callbacks of the animation frame being run
    popIns,          \* number of popIn calls so far (identifies an animation)
    nativeBuffers,   \* OpenCV objects created and not deleted (a bag of their names)
    lastOp           \* what the last step did, when a property is about it (observation only)

vars == << uploadedImage, startARBtnDisabled, errorMsg, loading, cvReady, navigatorXR, scene,
           renderer, reticle, model, xrSession, rigs, inst, loops, clickListeners,
           dispatch, rafQueue, frameCallbacks, popIns, nativeBuffers, lastOp >>

----------------------------------------------------------------------------
\* Bounds of the model.

\* Clock samples per pop-in duration (dur = 220 ms): the clock is read every
\* dur / Grain ms.
Grain == 2
\* Start-AR clicks that get as far as initAR.
MaxStarts == 2
\* popIn calls (firing commit gestures).
MaxAnims == 2
\* Image loads pending at once.
MaxLoading == 1
\* Contours found in one image.
MaxContours == 3
\* Largest contour area.
MaxArea == 2
\* Math.random() is one of 0/RandDen .. (RandDen-1)/RandDen.
RandDen == 2

----------------------------------------------------------------------------
\* Program constants.

\* the seed scale 0.001 and target.s = 1, in thousandths
SeedMilli == 1
TargetMilli == 1000
\* const scale = 0.001 (pixel -> metre): micrometres per centipixel
WorldPerCentiPixel == 10
\* BoxGeometry(0.2, 0.2, 0.2) of the default rig, in micrometres
DefaultBoxSide == 200000
\* z thickness of head, body, legs, in micrometres
HeadDepth == 80000
BodyDepth == 100000
LegsDepth == 120000

Grain3 == Grain * Grain * Grain
ScaleDen == 1000 * Grain3
\* 0.001 and 1.0 as scales
Seed == SeedMilli * Grain3
One == TargetMilli * Grain3
\* 2 * Math.PI as an angle
TwoPi == RandDen

Min(a, b) == IF a < b THEN a ELSE b

----------------------------------------------------------------------------
\* Images and contours.  An image is what the decoder delivers; what
\* cv.findContours will find in it is part of the input.

Rects ==
    { [x |-> 50, y |-> 50, width |-> 300, height |-> 700],
      [x |-> 0,  y |-> 0,  width |-> 1,   height |-> 1],
      [x |-> 7,  y |-> 3,  width |-> 10,  height |-> 4] }

Contours == [area : 0..MaxArea, rect : Rects]

RECURSIVE SeqsUpTo(_, _)
SeqsUpTo(S, n) ==
    IF n = 0 THEN { <<>> }
    ELSE LET shorter == SeqsUpTo(S, n - 1)
         IN  shorter \cup { Append(s, e) : s \in { t \in shorter : Len(t) = n - 1 }, e \in S }

\* The calls of lines 258-277 that create or fill OpenCV objects, in order.
ProcessingSteps ==
    << "matFromImageData", "cvtColor", "GaussianBlur", "threshold", "morphologyEx",
       "findContours" >>

\* cvThrows: 0, or the index in ProcessingSteps of the call that throws.
MakeImage(w, h, cs, throws) ==
    [width |-> w, height |-> h, contours |-> cs, cvThrows |-> throws]

\* Every image of 400 x 800 pixels with up to MaxContours contours, and one
\* image for every call that can throw.
AllImages ==
    { MakeImage(400, 800, cs, 0) : cs \in SeqsUpTo(Contours, MaxContours) }
        \cup { MakeImage(400, 800, << >>, k) : k \in 1..Len(ProcessingSteps) }

\* cv.contourArea(c, false)
contourArea(c) == c.area
\* cv.boundingRect(c)
boundingRect(c) == c.rect

\* The loop of lines 279-288: the index of maxContour in contours, 0 for null.
RECURSIVE maxContourLoop(_, _, _, _)
maxContourLoop(contours, i, maxArea, maxContour) ==
    IF i > Len(contours) THEN maxContour
    ELSE LET a == contourArea(contours[i])
         IN  IF a > maxArea
             THEN maxContourLoop(contours, i + 1, a, i)
             ELSE maxContourLoop(contours, i + 1, maxArea, maxContour)

maxContourOf(contours) == maxContourLoop(contours, 1, 0, 0)

\* A head box that starts at the body's left edge (x + 0.2 W).
headBoxAtBodyEdge(rect) ==
    [x |-> 100 * rect.x + 20 * rect.width,
     y |-> 100 * rect.y,
     width |-> 50 * rect.width,
     height |-> 20 * rect.height]

\* Lines 294-311, in centipixels.
headBoxOf(rect) ==
    [x |-> 100 * rect.x + 25 * rect.width,
     y |-> 100 * rect.y,
     width |-> 50 * rect.width,
     height |-> 20 * rect.height]

\* A body box that starts inside the head's band (y + 0.15 H).
bodyBoxFromHead(rect) ==
    [x |-> 100 * rect.x + 20 * rect.width,
     y |-> 100 * rect.y + 15 * rect.height,
     width |-> 60 * rect.width,
     height |-> 40 * rect.height]

bodyBoxOf(rect) ==
    [x |-> 100 * rect.x + 20 * rect.width,
     y |-> 100 * rect.y + 20 * rect.height,
     width |-> 60 * rect.width,
     height |-> 40 * rect.height]

legsBoxOf(rect) ==
    [x |-> 100 * rect.x + 20 * rect.width,
     y |-> 100 * rect.y + 60 * rect.height,
     width |-> 60 * rect.width,
     height |-> 40 * rect.height]

\* processDrawingImage(imageElement): <<>> for null, else <<parts>>.
\* (Called only on an image whose processing does not throw.)
processDrawingImage(imageElement) ==
    LET maxContour == maxContourOf(imageElement.contours)
    IN  IF maxContour # 0
        THEN LET rect == boundingRect(imageElement.contours[maxContour])
             IN  << [headBox |-> headBoxOf(rect),
                     bodyBox |-> bodyBoxOf(rect),
                     legsBox |-> legsBoxOf(rect),
                     imgW |-> imageElement.width,
                     imgH |-> imageElement.height] >>
        ELSE << >>

\* Whether processDrawingImage(image) throws: a null image (imageElement.width
\* of null) or a processing step of OpenCV that throws.
processThrows(image) == image = << >> \/ image[1].cvThrows # 0

\* The OpenCV objects of one call of processDrawingImage, by the variable
\* that holds them, in the order of their creation (lines 258-276).
BufferNames == << "src", "gray", "blur", "binary", "kernel", "contours", "hierarchy" >>

\* How many of them exist when the call ProcessingSteps[k] throws:
\* matFromImageData has not returned src; cvtColor has src and gray; ...;
\* findContours has all of them.
createdBefore == << 0, 2, 3, 4, 5, 7 >>

Named(n) == SetToBag({ BufferNames[b] : b \in 1..n })

\* contours.get(i) of line 282 returns a new cv.Mat for every i.
contourMats(n) == IF n = 0 THEN EmptyBag ELSE [b \in { "contour" } |-> n]

\* The objects the call creates up to its return or its exception.
createdBuffers(imageElement) ==
    IF imageElement.cvThrows # 0
    THEN Named(createdBefore[imageElement.cvThrows])
    ELSE Named(Len(BufferNames)) (+) contourMats(Len(imageElement.contours))

\* Lines 317-318: the objects the call deletes (it reaches them only if
\* nothing has thrown).
deletedBuffers(imageElement) ==
    IF imageElement.cvThrows # 0 THEN EmptyBag ELSE Named(Len(BufferNames))

\* What one call of processDrawingImage leaves behind.
leftBuffers(imageElement) == createdBuffers(imageElement) (-) deletedBuffers(imageElement)

----------------------------------------------------------------------------
\* Scene objects.

Vec3(x, y, z) == << x, y, z >>

\* A 4x4 pose matrix, as its rotation part (Euler angles) and its translation
\* part (elements 12..14).
Matrix4(rotation, position) == [rotation |-> rotation, position |-> position]
IdentityMatrix == Matrix4(Vec3(0, 0, 0), Vec3(0, 0, 0))

\* Vector3.setFromMatrixPosition(m)
setFromMatrixPosition(m) == m.position

\* A solid: a Mesh with a BoxGeometry(width, height, depth) at local height y.
Solid(name, width, height, depth, y) ==
    [name |-> name, width |-> width, height |-> height, depth |-> depth, y |-> y]

\* A new Object3D: visible, at the origin, unrotated, scale (1, 1, 1), no parent.
\* (committed is not a field of the object: it records that a firing commit
\* gesture has acted on it.)
Object3D(kind, solids) ==
    [kind |-> kind, visible |-> TRUE, position |-> Vec3(0, 0, 0),
     rotation |-> Vec3(0, 0, 0), scale |-> One, parent |-> 0, solids |-> solids,
     committed |-> FALSE]

\* Lines 153-155: the reticle Mesh of initAR.
NewReticle == [defined |-> TRUE, visible |-> FALSE, matrix |-> IdentityMatrix]
NoReticle == [defined |-> FALSE, visible |-> FALSE, matrix |-> IdentityMatrix]

\* Lines 159-163: the default rig, hidden; scene.add (line 164) sets its parent.
DefaultRig(sc) ==
    [ Object3D("box", << Solid("box", DefaultBoxSide, DefaultBoxSide, DefaultBoxSide, 0) >>)
        EXCEPT !.visible = FALSE, !.parent = sc ]

\* pixel length * scale (0.001), in micrometres
toWorld(centiPixels) == centiPixels * WorldPerCentiPixel

\* Legs hung from the body's centre by the legs' half height only.
legsYFromCentre(parts) == 0 - toWorld(parts.legsBox.height) \div 2

\* Lines 331-347: the three solids and their local positions.
headY(parts) == toWorld(parts.bodyBox.height) \div 2 + toWorld(parts.headBox.height) \div 2

legsY(parts) == 0 - toWorld(parts.bodyBox.height) \div 2 - toWorld(parts.legsBox.height) \div 2

skeletonSolids(parts) ==
    << Solid("head", toWorld(parts.headBox.width), toWorld(parts.headBox.height),
             HeadDepth, headY(parts)),
       Solid("body", toWorld(parts.bodyBox.width), toWorld(parts.bodyBox.height),
             BodyDepth, 0),
       Solid("legs", toWorld(parts.legsBox.width), toWorld(parts.legsBox.height),
             LegsDepth, legsY(parts)) >>

\* A group left as constructed (visible), line 357 omitted.
skeletonLeftVisible == TRUE

\* Line 357: model.visible = false on the new group.
skeletonVisible == FALSE

\* A replacement without line 354: the old rig stays in the scene.
replaceKeepingOld(parts, rs, mdl, sc) ==
    Append(rs, [ Object3D("group", skeletonSolids(parts))
                   EXCEPT !.parent = sc, !.visible = skeletonVisible ])

\* Lines 349-357, as the new value of rigs: the old rig leaves the scene, the
\* group is appended, added to the scene and hidden.
replaceWithSkeleton(parts, rs, mdl, sc) ==
    LET removed == IF mdl # 0 /\ rs[mdl].parent = sc
                   THEN [rs EXCEPT ![mdl].parent = 0]
                   ELSE rs
        group == [ Object3D("group", skeletonSolids(parts))
                     EXCEPT !.parent = sc, !.visible = skeletonVisible ]
    IN  Append(removed, group)

----------------------------------------------------------------------------
\* The rig objects the program can still observe.  rigs holds, in order of
\* creation, the rig objects that are the current model or children of the
\* current scene; model and the mesh of a callback are indices in it.  An
\* object that is neither can never be read again (no code adds an object to
\* a scene twice, and a scene that is not the current one is never rendered):
\* it is dropped, and a callback that still holds it has mesh 0 and writes to
\* garbage.

live(j, rs, mdl, sc) == j = mdl \/ (rs[j].parent # 0 /\ rs[j].parent = sc)

\* The index of object j once the unobservable objects are dropped (0: dropped).
newIndex(j, rs, mdl, sc) ==
    IF j = 0 \/ ~live(j, rs, mdl, sc) THEN 0
    ELSE Cardinality({ k \in 1..j : live(k, rs, mdl, sc) })

RECURSIVE keepLive(_, _, _, _)
keepLive(j, rs, mdl, sc) ==
    IF j > Len(rs) THEN << >>
    ELSE (IF live(j, rs, mdl, sc) THEN << rs[j] >> ELSE << >>) \o keepLive(j + 1, rs, mdl, sc)

observableRigs(rs, mdl, sc) == keepLive(1, rs, mdl, sc)

renumbered(callbacks, rs, mdl, sc) ==
    [c \in 1..Len(callbacks) |->
        [callbacks[c] EXCEPT !.mesh = newIndex(callbacks[c].mesh, rs, mdl, sc)]]

----------------------------------------------------------------------------
\* The pop-in animation.

\* A step without the seed term: s = (target.s - 0.001) * ease.
stepScaleFromZero(elapsed) ==
    LET k == Min(Grain, elapsed)
        ease == Grain3 - (Grain - k) * (Grain - k) * (Grain - k)
    IN  (TargetMilli - SeedMilli) * ease

\* Lines 236-238: the scale step(t) writes when t - start is `elapsed` clock
\* samples, that is elapsed * dur / Grain ms: e = min(1, (t - start) / dur)
\* = k / Grain.
stepScale(elapsed) ==
    LET k == Min(Grain, elapsed)
        \* ease = 1 - (1 - e)^3, times Grain^3
        ease == Grain3 - (Grain - k) * (Grain - k) * (Grain - k)
    IN  SeedMilli * Grain3 + (TargetMilli - SeedMilli) * ease

\* A step that registers itself whatever e is.
stepAlways(elapsed) == elapsed <= Grain

\* Line 240: e < 1
stepAgain(elapsed) == elapsed < Grain

\* An animation callback: the mesh popIn closed over and t - start at the
\* current time (start = performance.now() at the popIn call), in clock
\* samples.  Elapsed time is kept up to dur (Grain samples): beyond it
\* min(1, .) makes every value behave alike.
Callback(id, mesh, elapsed) == [id |-> id, mesh |-> mesh, elapsed |-> elapsed]

----------------------------------------------------------------------------
\* Inputs of the environment.

BlobRect == [x |-> 50, y |-> 50, width |-> 300, height |-> 700]
\* a drawing with one outline and a blank sheet
BlobImage == MakeImage(400, 800, << [area |-> MaxArea, rect |-> BlobRect] >>, 0)
BlankImage == MakeImage(400, 800, << >>, 0)

\* A file chosen in the file input: whether the browser can decode it, and
\* the image it decodes to.
File(decodes, image) == [decodes |-> decodes, image |-> image]
Files ==
    { File(TRUE, BlobImage), File(FALSE, BlankImage) }

\* pose.transform.matrix of a hit-test result
Poses ==
    { Matrix4(Vec3(1, 0, 2), Vec3(1, 2, 3)) }

\* A hit-test result: getPose(refSpace) is null (<<>>) or a pose.
HitResults == { [pose |-> << >>] } \cup { [pose |-> << p >>] : p \in Poses }

\* Results of one frame.
MaxHits == 2

\* What the loop callback is called with: frame (null when not presenting),
\* and what frame.getHitTestResults returns (isNull: a falsy value).
FrameInputs ==
    { [frame |-> f, isNull |-> n, results |-> rs] :
        f \in BOOLEAN, n \in BOOLEAN, rs \in SeqsUpTo(HitResults, MaxHits) }

\* Math.random() * Math.PI * 2 for Math.random() = r / RandDen
randomYaw(r) == r
RandomValues == 0..(RandDen - 1)

----------------------------------------------------------------------------
\* The state after the module has been evaluated (lines 1-61): no image, no
\* AR object; the button's disabled attribute and the device are given.

Init ==
    /\ uploadedImage = << >>
    /\ startARBtnDisabled \in BOOLEAN
    /\ errorMsg = ""
    /\ loading = << >>
    /\ cvReady = FALSE
    /\ navigatorXR \in BOOLEAN
    /\ scene = 0
    /\ renderer = 0
    /\ reticle = NoReticle
    /\ model = 0
    /\ xrSession = 0
    /\ rigs = << >>
    /\ inst = EmptyBag
    /\ loops = {}
    /\ clickListeners = 0
    /\ dispatch = 0
    /\ rafQueue = << >>
    /\ frameCallbacks = << >>
    /\ popIns = 0
    /\ nativeBuffers = EmptyBag
    /\ lastOp = "-"

\* An invocation of the Start-AR handler: where it awaits, and the outcome of
\* the processDrawingImage call it awaits at line 169.
Invocation(pc, parts, threw) == [pc |-> pc, parts |-> parts, threw |-> threw]
Awaiting(pc) == Invocation(pc, << >>, FALSE)

Moved(v, w) == (inst (-) SetToBag({v})) (+) SetToBag({w})
Finished(v) == inst (-) SetToBag({v})

\* The await of line 169 is on a promise that is already settled, the one of
\* line 185 on a value that is no promise: the continuation runs before any
\* other task.
MicrotaskPending == \E v \in BagToSet(inst) : v.pc \in { "awaitProcess", "awaitRefSpace" }
\* Listeners of one click, and callbacks of one animation frame, run back to
\* back.
BetweenCallbacks == dispatch = 0 /\ frameCallbacks = << >>
TaskCanStart == BetweenCallbacks /\ ~MicrotaskPending

arVars == << scene, renderer, reticle, model, xrSession, rigs, inst, loops, clickListeners >>
animVars == << dispatch, rafQueue, frameCallbacks, popIns >>
uploadVars == << uploadedImage, startARBtnDisabled, loading >>

----------------------------------------------------------------------------
\* Lines 54-57: OpenCV.js has loaded.
OpenCVReady ==
    /\ TaskCanStart
    /\ ~cvReady
    /\ cvReady' = TRUE
    /\ lastOp' = "-"
    /\ UNCHANGED << uploadVars, errorMsg, navigatorXR, nativeBuffers, arVars, animVars >>

\* A selection in the file input: event.target.files, and whether the load
\* of the Image created for it (line 98) is still pending.
Selection(files, pending) == [files |-> files, pending |-> pending]

\* The selections whose load is pending.
Pending(s) == { j \in 1..Len(s) : s[j].pending }

\* Of the selections s, in the order they were made: those whose load is
\* pending and, when it was made after the oldest of them, the most recent
\* one.  (No other selection can be told from the state of the page.)
sinceOldestPending(s) ==
    IF Pending(s) = {} THEN << >>
    ELSE LET first == CHOOSE j \in Pending(s) : \A k \in Pending(s) : j <= k
             kept == SelectSeq([j \in 1..Len(s) |-> << j, s[j] >>],
                               LAMBDA p : p[1] >= first /\ (p[2].pending \/ p[1] = Len(s)))
         IN  [j \in 1..Len(kept) |-> kept[j][2]]

\* The load of selection i has settled.
Settled(s, i) == sinceOldestPending([s EXCEPT ![i].pending = FALSE])

\* Lines 78-99: the change handler of the file input.
ImageUploadChange(files) ==
    /\ TaskCanStart
    /\ errorMsg' = ""
    /\ IF files = << >>
       THEN /\ uploadedImage' = << >>
            /\ startARBtnDisabled' = TRUE
            /\ loading' = sinceOldestPending(Append(loading, Selection(files, FALSE)))
            /\ lastOp' = "upload.none"
       ELSE /\ Cardinality(Pending(loading)) < MaxLoading
            /\ loading' = sinceOldestPending(Append(loading, Selection(files, TRUE)))
            /\ UNCHANGED << uploadedImage, startARBtnDisabled >>
            /\ lastOp' = "-"
    /\ UNCHANGED << cvReady, navigatorXR, nativeBuffers, arVars, animVars >>

\* Lines 88-92: img.onload.
ImgOnload(i) ==
    /\ TaskCanStart
    /\ i \in Pending(loading)
    /\ loading[i].files[1].decodes
    /\ uploadedImage' = << loading[i].files[1].image >>
    /\ startARBtnDisabled' = FALSE
    /\ loading' = Settled(loading, i)
    /\ lastOp' = "-"
    /\ UNCHANGED << errorMsg, cvReady, navigatorXR, nativeBuffers, arVars, animVars >>

\* Lines 93-97: img.onerror.
ImgOnerror(i) ==
    /\ TaskCanStart
    /\ i \in Pending(loading)
    /\ ~loading[i].files[1].decodes
    /\ uploadedImage' = << >>
    /\ startARBtnDisabled' = TRUE
    /\ errorMsg' = "image failed to load"
    /\ loading' = Settled(loading, i)
    /\ lastOp' = "img.onerror"
    /\ UNCHANGED << cvReady, navigatorXR, nativeBuffers, arVars, animVars >>

----------------------------------------------------------------------------
\* The placement gesture and the pop-in it starts.

\* A handler that tests the rig only.
commitFiresOnRig(ret, mdl) == mdl # 0

\* Line 208: reticle.visible && model
commitFires(ret, mdl) == ret.visible /\ mdl # 0

\* A placement that takes the whole pose: the orientation too.
placeRigWithPose(rig, ret, r) ==
    [rig EXCEPT !.visible = TRUE,
                !.position = setFromMatrixPosition(ret.matrix),
                !.rotation = ret.matrix.rotation,
                !.scale = Seed]

\* Lines 209-213 on the rig.
placeRig(rig, ret, r) ==
    [rig EXCEPT !.visible = TRUE,
                !.position = setFromMatrixPosition(ret.matrix),
                !.rotation[2] = randomYaw(r),
                !.scale = Seed]

\* A popIn that cancels the callbacks registered for the same mesh.
popInCancelling(queue, id, mesh) ==
    Append(SelectSeq(queue, LAMBDA c : c.mesh # mesh), Callback(id, mesh, 0))

\* Lines 231-243, popIn(mesh): start = performance.now(), one callback is
\* registered.
popIn(queue, id, mesh) == Append(queue, Callback(id, mesh, 0))

\* A click is dispatched only if the pop-ins it starts stay within MaxAnims.
ClickBudget == commitFires(reticle, model) => popIns + clickListeners <= MaxAnims

\* The handler without the test of lines 111-114.
StartARClickUnchecked ==
    /\ TaskCanStart
    /\ ~startARBtnDisabled
    /\ ClickBudget
    /\ IF uploadedImage = << >>
       THEN /\ errorMsg' = "upload an image"
            /\ inst' = inst
            /\ lastOp' = "startAR.noImage"
       ELSE /\ renderer + CopiesIn(Awaiting("awaitSupported"), inst) < MaxStarts
            /\ errorMsg' = ""
            /\ inst' = inst (+) SetToBag({ Awaiting("awaitSupported") })
            /\ lastOp' = "startAR.checking"
    /\ dispatch' = clickListeners
    /\ UNCHANGED << uploadVars, cvReady, navigatorXR, nativeBuffers, scene, renderer, reticle, model,
                    xrSession, rigs, loops, clickListeners, rafQueue, frameCallbacks,
                    popIns >>

\* Lines 104-115: a click on Start AR (a disabled button receives none), up
\* to the first await.  The click then bubbles to the listeners of window.
StartARClick ==
    /\ TaskCanStart
    /\ ~startARBtnDisabled
    /\ ClickBudget
    /\ IF uploadedImage = << >>
       THEN /\ errorMsg' = "upload an image"
            /\ inst' = inst
            /\ lastOp' = "startAR.noImage"
       ELSE IF ~navigatorXR
       THEN /\ errorMsg' = "WebXR not supported"
            /\ inst' = inst
            /\ lastOp' = "startAR.noXR"
       ELSE /\ renderer + CopiesIn(Awaiting("awaitSupported"), inst) < MaxStarts
            /\ errorMsg' = ""
            /\ inst' = inst (+) SetToBag({ Awaiting("awaitSupported") })
            /\ lastOp' = "startAR.checking"
    /\ dispatch' = clickListeners
    /\ UNCHANGED << uploadVars, cvReady, navigatorXR, nativeBuffers, scene, renderer, reticle, model,
                    xrSession, rigs, loops, clickListeners, rafQueue, frameCallbacks,
                    popIns >>

\* Lines 115-119 and 121-122 with initAR up to its first await (lines 134-169,
\* or 134-180 when OpenCV is not ready): isSessionSupported has settled
\* (outcome "rejected" is turned into false by the catch).
IsSessionSupportedSettled(v, outcome) ==
    /\ TaskCanStart
    /\ v \in BagToSet(inst)
    /\ v.pc = "awaitSupported"
    /\ IF outcome # "true"
       THEN /\ errorMsg' = "immersive-ar not supported"
            /\ inst' = Finished(v)
            /\ lastOp' = "startAR.unsupported"
            /\ UNCHANGED << scene, renderer, reticle, model, rigs, rafQueue, nativeBuffers >>
       ELSE LET sc == scene + 1
                created == Append(rigs, DefaultRig(sc))
                mdl == Len(created)
            IN  /\ renderer' = renderer + 1
                /\ scene' = sc
                /\ reticle' = NewReticle
                /\ rigs' = observableRigs(created, mdl, sc)
                /\ model' = newIndex(mdl, created, mdl, sc)
                /\ rafQueue' = renumbered(rafQueue, created, mdl, sc)
                /\ inst' = IF ~cvReady
                           THEN Moved(v, Awaiting("awaitSession"))
                           ELSE IF processThrows(uploadedImage)
                           THEN Moved(v, Invocation("awaitProcess", << >>, TRUE))
                           ELSE Moved(v, Invocation("awaitProcess",
                                                    processDrawingImage(uploadedImage[1]),
                                                    FALSE))
                /\ nativeBuffers' = IF cvReady /\ uploadedImage # << >>
                                    THEN nativeBuffers (+) leftBuffers(uploadedImage[1])
                                    ELSE nativeBuffers
                /\ errorMsg' = errorMsg
                /\ lastOp' = "initAR"
    /\ UNCHANGED << uploadVars, cvReady, navigatorXR, xrSession, loops, clickListeners,
                    dispatch, frameCallbacks, popIns >>

\* The continuation without the try/catch of lines 168-176: an exception of
\* processDrawingImage leaves initAR.
ProcessResumedUncaught(v) ==
    /\ BetweenCallbacks
    /\ v \in BagToSet(inst)
    /\ v.pc = "awaitProcess"
    /\ IF v.threw
       THEN /\ errorMsg' = "AR initialisation failed"
            /\ inst' = Finished(v)
            /\ lastOp' = "-"
            /\ UNCHANGED << rigs, model, rafQueue >>
       ELSE /\ errorMsg' = errorMsg
            /\ inst' = Moved(v, Awaiting("awaitSession"))
            /\ IF v.parts # << >>
               THEN LET replaced == replaceWithSkeleton(v.parts[1], rigs, model, scene)
                        mdl == Len(replaced)
                    IN  /\ rigs' = observableRigs(replaced, mdl, scene)
                        /\ model' = newIndex(mdl, replaced, mdl, scene)
                        /\ rafQueue' = renumbered(rafQueue, replaced, mdl, scene)
                        /\ lastOp' = "replaced"
               ELSE /\ UNCHANGED << rigs, model, rafQueue >>
                    /\ lastOp' = "-"
    /\ UNCHANGED << uploadVars, cvReady, navigatorXR, nativeBuffers, scene, renderer, reticle,
                    xrSession, loops, clickListeners, dispatch, frameCallbacks, popIns >>

\* Lines 169-180: the continuation of the await of line 169.
ProcessResumed(v) ==
    /\ BetweenCallbacks
    /\ v \in BagToSet(inst)
    /\ v.pc = "awaitProcess"
    /\ IF ~v.threw /\ v.parts # << >>
       THEN LET replaced == replaceWithSkeleton(v.parts[1], rigs, model, scene)
                mdl == Len(replaced)
            IN  /\ rigs' = observableRigs(replaced, mdl, scene)
                /\ model' = newIndex(mdl, replaced, mdl, scene)
                /\ rafQueue' = renumbered(rafQueue, replaced, mdl, scene)
                /\ lastOp' = "replaced"
       ELSE /\ UNCHANGED << rigs, model, rafQueue >>
            /\ lastOp' = IF v.threw THEN "extraction.failed" ELSE "-"
    /\ inst' = Moved(v, Awaiting("awaitSession"))
    /\ UNCHANGED << uploadVars, errorMsg, cvReady, navigatorXR, nativeBuffers, scene, renderer, reticle,
                    xrSession, loops, clickListeners, dispatch, frameCallbacks, popIns >>

\* Lines 123-126: initAR has thrown.
initARFailed(v) ==
    /\ errorMsg' = "AR initialisation failed"
    /\ inst' = Finished(v)
    /\ lastOp' = "-"

\* Lines 180-185: requestSession has settled; the session is set on the
\* renderer and getReferenceSpace() is awaited.
RequestSessionSettled(v, ok) ==
    /\ TaskCanStart
    /\ v \in BagToSet(inst)
    /\ v.pc = "awaitSession"
    /\ IF ok
       THEN /\ xrSession' = xrSession + 1
            /\ inst' = Moved(v, Awaiting("awaitRefSpace"))
            /\ errorMsg' = errorMsg
            /\ lastOp' = "-"
       ELSE /\ initARFailed(v)
            /\ xrSession' = xrSession
    /\ UNCHANGED << uploadVars, cvReady, navigatorXR, nativeBuffers, scene, renderer, reticle, model, rigs,
                    loops, clickListeners, animVars >>

\* Lines 185-186: the continuation of the await of line 185 asks the session
\* for the viewer space.
RefSpaceResumed(v) ==
    /\ BetweenCallbacks
    /\ v \in BagToSet(inst)
    /\ v.pc = "awaitRefSpace"
    /\ inst' = Moved(v, Awaiting("awaitViewerSpace"))
    /\ lastOp' = "-"
    /\ UNCHANGED << uploadVars, errorMsg, cvReady, navigatorXR, nativeBuffers, scene, renderer, reticle,
                    model, xrSession, rigs, loops, clickListeners, animVars >>

\* Lines 186-187: requestReferenceSpace('viewer') has settled; the hit-test
\* source is requested.
ViewerSpaceSettled(v, ok) ==
    /\ TaskCanStart
    /\ v \in BagToSet(inst)
    /\ v.pc = "awaitViewerSpace"
    /\ IF ok
       THEN /\ inst' = Moved(v, Awaiting("awaitHitTestSource"))
            /\ errorMsg' = errorMsg
            /\ lastOp' = "-"
       ELSE initARFailed(v)
    /\ UNCHANGED << uploadVars, cvReady, navigatorXR, nativeBuffers, scene, renderer, reticle, model,
                    xrSession, rigs, loops, clickListeners, animVars >>

\* Lines 187-219: requestHitTestSource has settled; the loop callback is
\* installed on the current renderer and the click listener on window.
HitTestSourceSettled(v, ok) ==
    /\ TaskCanStart
    /\ v \in BagToSet(inst)
    /\ v.pc = "awaitHitTestSource"
    /\ IF ok
       THEN /\ loops' = loops \cup { renderer }
            /\ clickListeners' = clickListeners + 1
            /\ inst' = Finished(v)
            /\ errorMsg' = errorMsg
            /\ lastOp' = "-"
       ELSE /\ initARFailed(v)
            /\ UNCHANGED << loops, clickListeners >>
    /\ UNCHANGED << uploadVars, cvReady, navigatorXR, nativeBuffers, scene, renderer, reticle, model,
                    xrSession, rigs, animVars >>

----------------------------------------------------------------------------
\* Lines 190-204: the render-loop callback.

\* A tracker without the else branch of lines 199-201.
trackReticleKeeping(ret, in) ==
    IF ~in.frame THEN ret
    ELSE IF ~in.isNull /\ Len(in.results) > 0
         THEN LET pose == in.results[1].pose
              IN  IF pose # << >>
                  THEN [ret EXCEPT !.visible = TRUE, !.matrix = pose[1]]
                  ELSE ret
         ELSE ret

\* Lines 191-202 on the reticle.
trackReticle(ret, in) ==
    IF ~in.frame THEN ret
    ELSE IF ~in.isNull /\ Len(in.results) > 0
         THEN LET pose == in.results[1].pose
              IN  IF pose # << >>
                  THEN [ret EXCEPT !.visible = TRUE, !.matrix = pose[1]]
                  ELSE ret
         ELSE [ret EXCEPT !.visible = FALSE]

\* What the frame delivered (observation only).
frameKind(in) ==
    IF ~in.frame THEN "-"
    ELSE IF in.isNull \/ Len(in.results) = 0 THEN "frame.noResults"
    ELSE IF in.results[1].pose = << >> THEN "frame.unresolved"
    ELSE "frame.hit"

RenderFrame(in) ==
    /\ TaskCanStart
    /\ loops # {}
    /\ reticle' = trackReticle(reticle, in)
    /\ lastOp' = frameKind(in)
    /\ UNCHANGED << uploadVars, errorMsg, cvReady, navigatorXR, nativeBuffers, scene, renderer, model,
                    xrSession, rigs, inst, loops, clickListeners, animVars >>

\* A click on the window: every listener added at line 207 will run.
WindowClick ==
    /\ TaskCanStart
    /\ clickListeners > 0
    /\ ClickBudget
    /\ dispatch' = clickListeners
    /\ lastOp' = "-"
    /\ UNCHANGED << uploadVars, errorMsg, cvReady, navigatorXR, nativeBuffers, arVars, rafQueue,
                    frameCallbacks, popIns >>

\* Lines 207-216: one listener runs.
ClickHandler(r) ==
    /\ dispatch > 0
    /\ dispatch' = dispatch - 1
    /\ IF commitFires(reticle, model)
       THEN /\ rigs' = [rigs EXCEPT ![model] =
                            [placeRig(@, reticle, r) EXCEPT !.committed = TRUE]]
            /\ rafQueue' = popIn(rafQueue, popIns + 1, model)
            /\ popIns' = popIns + 1
            /\ lastOp' = "commit.fired"
       ELSE /\ UNCHANGED << rigs, rafQueue, popIns >>
            /\ lastOp' = "commit.noop"
    /\ UNCHANGED << uploadVars, errorMsg, cvReady, navigatorXR, nativeBuffers, scene, renderer, reticle,
                    model, xrSession, inst, loops, clickListeners, frameCallbacks >>

\* Time passes: k more clock samples for every pending callback.
AdvanceClock(k) ==
    /\ TaskCanStart
    /\ \E c \in 1..Len(rafQueue) : rafQueue[c].elapsed < Grain
    /\ rafQueue' = [c \in 1..Len(rafQueue) |->
                       [rafQueue[c] EXCEPT !.elapsed = Min(Grain, @ + k)]]
    /\ lastOp' = "-"
    /\ UNCHANGED << uploadVars, errorMsg, cvReady, navigatorXR, nativeBuffers, arVars, dispatch,
                    frameCallbacks, popIns >>

\* An animation frame begins: the callbacks registered so far will run, with
\* the time of the frame.
AnimationFrame ==
    /\ TaskCanStart
    /\ rafQueue # << >>
    /\ frameCallbacks' = rafQueue
    /\ rafQueue' = << >>
    /\ lastOp' = "-"
    /\ UNCHANGED << uploadVars, errorMsg, cvReady, navigatorXR, nativeBuffers, arVars, dispatch, popIns >>

\* Lines 235-241: step(t) of the first callback of the frame.
StepCallback ==
    /\ frameCallbacks # << >>
    /\ LET cb == Head(frameCallbacks)
       IN  /\ rigs' = IF cb.mesh # 0
                      THEN [rigs EXCEPT ![cb.mesh].scale = stepScale(cb.elapsed)]
                      ELSE rigs
           /\ rafQueue' = IF stepAgain(cb.elapsed) THEN Append(rafQueue, cb) ELSE rafQueue
           /\ lastOp' = IF stepAgain(cb.elapsed) THEN "step.again" ELSE "step.last"
    /\ frameCallbacks' = Tail(frameCallbacks)
    /\ UNCHANGED << uploadVars, errorMsg, cvReady, navigatorXR, nativeBuffers, scene, renderer, reticle,
                    model, xrSession, inst, loops, clickListeners, dispatch, popIns >>

----------------------------------------------------------------------------
Outcomes == { "true", "false", "rejected" }

Next ==
    \/ OpenCVReady
    \/ \E files \in { << >> } \cup { << f >> : f \in Files } : ImageUploadChange(files)
    \/ \E i \in 1..MaxLoading : ImgOnload(i)
    \/ \E i \in 1..MaxLoading : ImgOnerror(i)
    \/ StartARClick
    \/ \E v \in BagToSet(inst), outcome \in Outcomes : IsSessionSupportedSettled(v, outcome)
    \/ \E v \in BagToSet(inst) : ProcessResumed(v)
    \/ \E v \in BagToSet(inst), ok \in BOOLEAN : RequestSessionSettled(v, ok)
    \/ \E v \in BagToSet(inst) : RefSpaceResumed(v)
    \/ \E v \in BagToSet(inst), ok \in BOOLEAN : ViewerSpaceSettled(v, ok)
    \/ \E v \in BagToSet(inst), ok \in BOOLEAN : HitTestSourceSettled(v, ok)
    \/ \E in \in FrameInputs : RenderFrame(in)
    \/ WindowClick
    \/ \E r \in RandomValues : ClickHandler(r)
    \/ \E k \in 1..Grain : AdvanceClock(k)
    \/ AnimationFrame
    \/ StepCallback

Spec == Init /\ [][Next]_vars

----------------------------------------------------------------------------
\* The extraction pipeline on every image: an image is loaded, OpenCV is
\* ready, and Start AR runs up to the end of the extraction.

ExtractInit ==
    /\ uploadedImage \in { << img >> : img \in AllImages }
    /\ startARBtnDisabled = FALSE
    /\ errorMsg = ""
    /\ loading = << >>
    /\ cvReady = TRUE
    /\ navigatorXR = TRUE
    /\ scene = 0
    /\ renderer = 0
    /\ reticle = NoReticle
    /\ model = 0
    /\ xrSession = 0
    /\ rigs = << >>
    /\ inst = EmptyBag
    /\ loops = {}
    /\ clickListeners = 0
    /\ dispatch = 0
    /\ rafQueue = << >>
    /\ frameCallbacks = << >>
    /\ popIns = 0
    /\ nativeBuffers = EmptyBag
    /\ lastOp = "-"

ExtractNext ==
    \/ StartARClick
    \/ \E v \in BagToSet(inst), outcome \in Outcomes : IsSessionSupportedSettled(v, outcome)
    \/ \E v \in BagToSet(inst) : ProcessResumed(v)

ExtractSpec == ExtractInit /\ [][ExtractNext]_vars

\* The browser runs an animation frame at every display refresh and the
\* clock advances, whatever other events arrive; a started dispatch, frame
\* or continuation runs to its end.
FairSpec ==
    /\ Spec
    /\ SF_vars(AnimationFrame)
    /\ SF_vars(\E k \in 1..Grain : AdvanceClock(k))
    /\ WF_vars(StepCallback)
    /\ WF_vars(\E r \in RandomValues : ClickHandler(r))
    /\ WF_vars(\E v \in BagToSet(inst) : ProcessResumed(v))
    /\ WF_vars(\E v \in BagToSet(inst) : RefSpaceResumed(v))

----------------------------------------------------------------------------
\* Properties of the placement loop.

\* A step in which one click listener has run.
ListenerRan == dispatch > 0 /\ dispatch' = dispatch - 1
\* A step in which step(t) of an animation callback has run.
TickRan == frameCallbacks # << >> /\ frameCallbacks' = Tail(frameCallbacks)
\* The positions surfaces are found at.
PosePositions == { setFromMatrixPosition(p) : p \in Poses }

\* C1: when a click listener runs while reticle.visible is true, then after
\* it the rig is visible, its position is the translation part of the
\* reticle's matrix, its yaw is in [0, 2 pi), its scale is the seed 0.001,
\* exactly one pop-in has been started (one callback registered, for this
\* rig, at elapsed time 0), and its pitch and roll are what they were.
C1_CommitPlacesRig ==
    [][ (ListenerRan /\ reticle.visible) =>
          /\ model # 0 /\ model' = model
          /\ rigs'[model].visible
          /\ rigs'[model].position = reticle'.matrix.position
          /\ rigs'[model].rotation[2] >= 0 /\ rigs'[model].rotation[2] < TwoPi
          /\ rigs'[model].scale = Seed
          /\ popIns' = popIns + 1
          /\ Len(rafQueue') = Len(rafQueue) + 1
          /\ SubSeq(rafQueue', 1, Len(rafQueue)) = rafQueue
          /\ rafQueue'[Len(rafQueue')] = Callback(popIns', model, 0)
          /\ rigs'[model].rotation[1] = rigs[model].rotation[1]
          /\ rigs'[model].rotation[3] = rigs[model].rotation[3] ]_vars

\* C1, reached: a commit has just placed the rig on a surface.
C1_Placed ==
    /\ lastOp = "commit.fired"
    /\ reticle.visible
    /\ rigs[model].visible
    /\ rigs[model].position \in PosePositions
    /\ rigs[model].position = reticle.matrix.position
    /\ rigs[model].scale = Seed
    /\ rafQueue # << >>

\* C2: a click listener that runs while reticle.visible is false changes
\* nothing: every rig keeps its position, rotation, visibility and scale, no
\* callback is registered, no pop-in is counted, no error is shown.
C2_HiddenCommitIsNoOp ==
    [][ (ListenerRan /\ ~reticle.visible) =>
          UNCHANGED << rigs, model, rafQueue, popIns, errorMsg, reticle >> ]_vars

\* C2, reached: a frame with a hit, a gesture that placed the rig at that
\* hit, a frame without a hit, and then a gesture that did nothing.
C2_NoOpAfterPlacement ==
    /\ lastOp = "commit.noop"
    /\ ~reticle.visible
    /\ model # 0
    /\ rigs[model].visible
    /\ rigs[model].position \in PosePositions
    /\ rigs[model].position = reticle.matrix.position

\* C3: after a loop callback whose frame returned zero hit-test results,
\* reticle.visible is false.
C3_NoResultsHidesReticle == lastOp = "frame.noResults" => ~reticle.visible

\* C3, reached: a frame without results after the reticle had tracked a hit.
C3_HiddenAfterHit ==
    /\ lastOp = "frame.noResults"
    /\ reticle.matrix # IdentityMatrix
    /\ ~reticle.visible

\* C4: after a loop callback that was given a frame, reticle.visible is true
\* only if that frame produced a result whose pose resolved; a frame without
\* results, or whose first result has no pose, leaves the reticle hidden.
C4_NoHitCarriedOver ==
    lastOp \in { "frame.noResults", "frame.unresolved", "frame.hit" } =>
        (reticle.visible => lastOp = "frame.hit")

\* C4, reached: a frame whose first result has no pose has left the reticle
\* visible, at the pose of an earlier frame.
C4_StaleHit ==
    /\ lastOp = "frame.unresolved"
    /\ reticle.visible
    /\ reticle.matrix \in Poses

\* C5: the current rig is visible exactly if a firing commit has acted on it
\* since it became the current rig, and a visible rig stays visible under
\* every step that does not create a new rig.
C5_NoHideTransition ==
    /\ [](model # 0 => (rigs[model].visible <=> rigs[model].committed))
    /\ [][ (model # 0 /\ rigs[model].visible /\ renderer' = renderer) =>
             (model' # 0 /\ rigs'[model'].visible) ]_vars

\* C5, reached: a skeleton rig placed by a commit is still visible after its
\* pop-in has run to the end.
C5_StillVisible ==
    /\ lastOp = "step.last"
    /\ model # 0
    /\ rigs[model].kind = "group"
    /\ rigs[model].visible
    /\ rigs[model].committed
    /\ rigs[model].scale = One

\* Animation a has a callback registered or about to run.
Scheduled(a) ==
    \/ \E c \in 1..Len(rafQueue) : rafQueue[c].id = a
    \/ \E c \in 1..Len(frameCallbacks) : frameCallbacks[c].id = a

\* C6: a tick at t - start >= dur writes scale 1.0 and registers nothing; an
\* earlier tick writes a scale in [seed, 1.0) and registers exactly one
\* callback, its own; and every animation, once started, is from some moment
\* on never scheduled again.
C6_PopInTerminates ==
    /\ [][ TickRan =>
             LET cb == Head(frameCallbacks)
             IN  IF cb.elapsed >= Grain
                 THEN /\ cb.mesh # 0 => rigs'[cb.mesh].scale = One
                      /\ rafQueue' = rafQueue
                 ELSE /\ cb.mesh # 0 =>
                            /\ rigs'[cb.mesh].scale >= Seed
                            /\ rigs'[cb.mesh].scale < One
                      /\ rafQueue' = Append(rafQueue, cb) ]_vars
    /\ <>[](\A a \in 1..MaxAnims : ~Scheduled(a))

\* C6, reached: the last tick of a pop-in has written 1.0 on the current rig
\* and nothing is scheduled.
C6_Finished ==
    /\ lastOp = "step.last"
    /\ popIns > 0
    /\ model # 0
    /\ rigs[model].scale = One
    /\ rafQueue = << >>
    /\ frameCallbacks = << >>

----------------------------------------------------------------------------
\* Properties of the extraction pipeline.

\* The invocations whose processDrawingImage call has returned a value.
Extracted == { v \in BagToSet(inst) : v.pc = "awaitProcess" /\ ~v.threw }
\* The contours found in the uploaded image.
Found == uploadedImage[1].contours

\* parts is the partition of rectangle r (pixels against centipixels).
PartitionOf(parts, r) ==
    /\ 4 * (parts.headBox.x - 100 * r.x) = 100 * r.width
    /\ parts.headBox.y = 100 * r.y
    /\ 2 * parts.headBox.width = 100 * r.width
    /\ 5 * parts.headBox.height = 100 * r.height
    /\ 5 * (parts.bodyBox.x - 100 * r.x) = 100 * r.width
    /\ 5 * (parts.bodyBox.y - 100 * r.y) = 100 * r.height
    /\ 5 * parts.bodyBox.width = 3 * 100 * r.width
    /\ 5 * parts.bodyBox.height = 2 * 100 * r.height
    /\ 5 * (parts.legsBox.x - 100 * r.x) = 100 * r.width
    /\ 5 * (parts.legsBox.y - 100 * r.y) = 3 * 100 * r.height
    /\ 5 * parts.legsBox.width = 3 * 100 * r.width
    /\ 5 * parts.legsBox.height = 2 * 100 * r.height

\* HEAD{125,50,150,140}, BODY{110,190,180,280}, LEGS{110,470,180,280}
ExampleParts(parts) ==
    /\ parts.headBox = [x |-> 12500, y |-> 5000, width |-> 15000, height |-> 14000]
    /\ parts.bodyBox = [x |-> 11000, y |-> 19000, width |-> 18000, height |-> 28000]
    /\ parts.legsBox = [x |-> 11000, y |-> 47000, width |-> 18000, height |-> 28000]

\* C7: every partition returned is, for the bounding rectangle {x, y, W, H}
\* of a contour of the image (W > 0, H > 0), HEAD = {x + 0.25 W, y, 0.5 W,
\* 0.2 H}, BODY = {x + 0.2 W, y + 0.2 H, 0.6 W, 0.4 H}, LEGS = {x + 0.2 W,
\* y + 0.6 H, 0.6 W, 0.4 H}; for {50, 50, 300, 700} it is the example.
C7_PartitionFractions ==
    \A v \in Extracted :
        v.parts # << >> =>
            \E i \in 1..Len(Found) :
                LET r == boundingRect(Found[i])
                IN  /\ r.width > 0 /\ r.height > 0
                    /\ PartitionOf(v.parts[1], r)
                    /\ r = [x |-> 50, y |-> 50, width |-> 300, height |-> 700]
                          => ExampleParts(v.parts[1])

\* C7, reached: the partition of {50, 50, 300, 700} has been returned.
C7_ExamplePartition ==
    \E v \in Extracted :
        /\ v.parts # << >>
        /\ ExampleParts(v.parts[1])
        /\ \E i \in 1..Len(Found) :
               boundingRect(Found[i]) = [x |-> 50, y |-> 50, width |-> 300, height |-> 700]

\* C8: in every skeleton rig, whose solids have the heights 0.2 H, 0.4 H,
\* 0.4 H of a contour's rectangle times 0.001 (H px is 1000 H micrometres),
\* BODY is at the local origin, HEAD at (bodyH + headH) / 2 and LEGS at
\* -(bodyH + legsH) / 2, so that HEAD's bottom face is BODY's top face and
\* LEGS' top face is BODY's bottom face.
C8_StackedSolids ==
    (model # 0 /\ rigs[model].kind = "group") =>
        LET head == rigs[model].solids[1]
            body == rigs[model].solids[2]
            legs == rigs[model].solids[3]
        IN  /\ head.name = "head" /\ body.name = "body" /\ legs.name = "legs"
            /\ \E i \in 1..Len(Found) :
                   /\ head.height = 200 * boundingRect(Found[i]).height
                   /\ body.height = 400 * boundingRect(Found[i]).height
                   /\ legs.height = 400 * boundingRect(Found[i]).height
            /\ body.y = 0
            /\ 2 * head.y = body.height + head.height
            /\ 2 * legs.y = 0 - (body.height + legs.height)
            /\ 2 * head.y - head.height = 2 * body.y + body.height
            /\ 2 * legs.y + legs.height = 2 * body.y - body.height

\* C8, reached: the skeleton of an outline 700 px high has replaced the
\* default rig: HEAD at 0.21 m, LEGS at -0.28 m.
C8_SkeletonBuilt ==
    /\ lastOp = "replaced"
    /\ model # 0
    /\ rigs[model].kind = "group"
    /\ rigs[model].solids[1].y = 210000
    /\ rigs[model].solids[2].y = 0
    /\ rigs[model].solids[3].y = 0 - 280000

\* Contour i has the largest area of the sequence and is the first that has.
FirstLargest(contours, i) ==
    /\ \A j \in 1..Len(contours) : contourArea(contours[j]) <= contourArea(contours[i])
    /\ \A j \in 1..(i - 1) : contourArea(contours[j]) < contourArea(contours[i])

\* C9: for every non-empty sequence of contours, a partition is returned and
\* it is the partition of the rectangle of the first contour of largest area.
C9_LargestContourFirst ==
    \A v \in Extracted :
        Found # << >> =>
            /\ v.parts # << >>
            /\ \E i \in 1..Len(Found) :
                   /\ FirstLargest(Found, i)
                   /\ PartitionOf(v.parts[1], boundingRect(Found[i]))

\* C9, reached: contours were found, the largest area among them is 0, and no
\* contour's rectangle is used.
C9_NoneUsed ==
    \E v \in Extracted :
        /\ v.parts = << >>
        /\ Len(Found) > 1
        /\ \A j \in 1..Len(Found) : contourArea(Found[j]) = 0

\* C10: processDrawingImage returns null exactly if no contour was found.
C10_EmptyIffNoContour ==
    \A v \in Extracted : (v.parts = << >>) <=> (Found = << >>)

\* C10, reached: null is returned for an image with one contour.
C10_NullWithContour ==
    \E v \in Extracted : v.parts = << >> /\ Len(Found) = 1


----------------------------------------------------------------------------
\* Properties of session start.

\* The rig objects that are children of the current scene.
RigsInScene == { j \in 1..Len(rigs) : scene # 0 /\ rigs[j].parent = scene }

\* The continuation of line 169 runs for an extraction that returned null or
\* threw.
ExtractionFailedStep ==
    /\ inst' # inst
    /\ \E v \in BagToSet(inst) : v.pc = "awaitProcess" /\ (v.threw \/ v.parts = << >>)

\* C11: when processDrawingImage has returned null or thrown, the
\* continuation of initAR shows no error and ends no invocation: it goes on
\* to await requestSession (line 180), as an invocation whose extraction
\* succeeded or was skipped does, and from there to the render loop and the
\* click listener; the current rig is the default box, hidden, and the only
\* rig in the scene.
C11_ExtractionFailureFallsBack ==
    [][ ExtractionFailedStep =>
          /\ errorMsg' = errorMsg
          /\ BagCardinality(inst') = BagCardinality(inst)
          /\ CopiesIn(Awaiting("awaitSession"), inst')
                 = CopiesIn(Awaiting("awaitSession"), inst) + 1
          /\ model' # 0
          /\ rigs'[model'].kind = "box"
          /\ ~rigs'[model'].visible
          /\ { j \in 1..Len(rigs') : rigs'[j].parent = scene' } = { model' } ]_vars

\* C11, reached: OpenCV has thrown on the uploaded image, and initAR awaits
\* the session with the hidden default box as the only rig.
C11_FellBack ==
    /\ lastOp = "extraction.failed"
    /\ Awaiting("awaitSession") \in BagToSet(inst)
    /\ errorMsg = ""
    /\ model # 0
    /\ rigs[model].kind = "box"
    /\ ~rigs[model].visible
    /\ RigsInScene = { model }

\* C12: when a call of processDrawingImage has ended (by a partition, by
\* null, or by an exception of a processing step), every OpenCV object it
\* created has been deleted.
C12_BuffersReleased == nativeBuffers = EmptyBag

\* C12, reached: cvtColor has thrown, and src and gray are left undeleted.
C12_LeftAfterThrow ==
    /\ \E v \in BagToSet(inst) : v.pc = "awaitProcess" /\ v.threw
    /\ uploadedImage[1].cvThrows = 2
    /\ nativeBuffers = SetToBag({ "src", "gray" })

\* C13: once initAR has created the default rig, the current scene contains
\* exactly one rig object and model is that object; after
\* replaceWithSkeleton that object is the new group, and the box it replaced
\* is neither in the scene nor model.
C13_OneRigInScene ==
    /\ (renderer > 0) <=> (model # 0)
    /\ model # 0 => RigsInScene = { model }
    /\ lastOp = "replaced" =>
           /\ rigs[model].kind = "group"
           /\ \A j \in 1..Len(rigs) : rigs[j].kind = "box" => j # model /\ rigs[j].parent # scene

\* C13, reached: the skeleton has replaced the default box and is the only
\* rig of the scene.
C13_Replaced ==
    /\ lastOp = "replaced"
    /\ model # 0
    /\ rigs[model].kind = "group"
    /\ rigs[model].parent = scene
    /\ RigsInScene = { model }

\* Nothing of initAR exists: no renderer, scene, reticle, rig, session,
\* OpenCV object, render loop or click listener.
NothingCreated ==
    /\ renderer = 0 /\ scene = 0 /\ ~reticle.defined
    /\ model = 0 /\ rigs = << >> /\ xrSession = 0
    /\ nativeBuffers = EmptyBag
    /\ loops = {} /\ clickListeners = 0

\* A step in which an invocation that awaited isSessionSupported has ended:
\* the promise resolved to false or rejected.
UnsupportedStep ==
    /\ CopiesIn(Awaiting("awaitSupported"), inst') < CopiesIn(Awaiting("awaitSupported"), inst)
    /\ BagCardinality(inst') < BagCardinality(inst)

\* C14: on a device without navigator.xr, a click on Start AR shows an error
\* and nothing of initAR is ever created; and when isSessionSupported has
\* resolved to false or rejected, the handler shows an error and creates
\* nothing: renderer, scene, reticle, rigs, session, OpenCV objects, render
\* loops and click listeners are what they were.
C14_UnsupportedNeverStarts ==
    /\ [](~navigatorXR =>
            /\ NothingCreated
            /\ inst = EmptyBag
            /\ lastOp \in { "startAR.noImage", "startAR.noXR", "startAR.checking" }
                   => errorMsg # "")
    /\ [][ UnsupportedStep =>
             /\ errorMsg' = "immersive-ar not supported"
             /\ UNCHANGED << renderer, scene, reticle, model, rigs, xrSession,
                             nativeBuffers, loops, clickListeners, rafQueue >> ]_vars

\* C14, reached: with an image uploaded, isSessionSupported has reported no
\* support: the error is shown and nothing exists.
C14_Refused ==
    /\ lastOp = "startAR.unsupported"
    /\ uploadedImage # << >>
    /\ errorMsg = "immersive-ar not supported"
    /\ NothingCreated

----------------------------------------------------------------------------
\* Properties of the upload.

\* A step in which img.onerror has run for a pending load.
DecodeFailedStep == lastOp' = "img.onerror" /\ loading' # loading

\* C15: when an image fails to load the user is notified, and the uploaded
\* image and the disabled state of Start AR are what they were before.
C15_DecodeFailureKeepsState ==
    [][ DecodeFailedStep =>
          /\ errorMsg' # ""
          /\ uploadedImage' = uploadedImage
          /\ startARBtnDisabled' = startARBtnDisabled ]_vars

\* C15, reached: an image has failed to load; no image is held and Start AR
\* is disabled.
C15_ResetByFailure ==
    /\ lastOp = "img.onerror"
    /\ errorMsg = "image failed to load"
    /\ uploadedImage = << >>
    /\ startARBtnDisabled

----------------------------------------------------------------------------
\* The vertical bands of the partition.

\* The partitions returned.
Partitions == { v.parts[1] : v \in { u \in Extracted : u.parts # << >> } }

\* C16, as stated: in every partition two adjacent boxes share a vertical
\* interval of positive length (HEAD ends below BODY's top, or BODY ends
\* below LEGS' top).
C16_BandsOverlap ==
    \A p \in Partitions :
        \/ p.headBox.y + p.headBox.height > p.bodyBox.y
        \/ p.bodyBox.y + p.bodyBox.height > p.legsBox.y

\* C16, amended: in every partition the three boxes tile the height of the
\* rectangle: HEAD ends where BODY starts, BODY ends where LEGS starts, and
\* the three heights add up to the height from HEAD's top to LEGS' bottom.
C16_BandsTile ==
    \A p \in Partitions :
        /\ p.headBox.y + p.headBox.height = p.bodyBox.y
        /\ p.bodyBox.y + p.bodyBox.height = p.legsBox.y
        /\ p.headBox.height > 0 /\ p.bodyBox.height > 0 /\ p.legsBox.height > 0
        /\ p.headBox.height + p.bodyBox.height + p.legsBox.height
               = p.legsBox.y + p.legsBox.height - p.headBox.y

\* C16, reached: the bands of {50, 50, 300, 700}: 50..190, 190..470, 470..750.
C16_ExampleBands ==
    \E p \in Partitions :
        /\ p.headBox.y = 5000 /\ p.headBox.y + p.headBox.height = 19000
        /\ p.bodyBox.y = 19000 /\ p.bodyBox.y + p.bodyBox.height = 47000
        /\ p.legsBox.y = 47000 /\ p.legsBox.y + p.legsBox.height = 75000

----------------------------------------------------------------------------
\* Concurrent pop-ins.

\* The callbacks registered or about to run whose mesh is the current rig.
OnCurrentRig ==
    { c \in { rafQueue[i] : i \in 1..Len(rafQueue) }
              \cup { frameCallbacks[i] : i \in 1..Len(frameCallbacks) } :
        model # 0 /\ c.mesh = model }

\* C17: a firing commit leaves every callback registered before it
\* registered, with its own start time; and every tick writes the scale of
\* its own elapsed time, 0.001 + 0.999 * (1 - (1 - e)^3) for
\* e = min(1, (t - start) / dur), whatever other animations run on the rig.
C17_CommitCancelsNothing ==
    /\ [][ (ListenerRan /\ reticle.visible) =>
             /\ Len(rafQueue') = Len(rafQueue) + 1
             /\ \A c \in 1..Len(rafQueue) : rafQueue'[c] = rafQueue[c] ]_vars
    /\ [][ TickRan =>
             LET cb == Head(frameCallbacks)
                 k == IF cb.elapsed < Grain THEN cb.elapsed ELSE Grain
             IN  cb.mesh # 0 =>
                    rigs'[cb.mesh].scale =
                        Grain3 + 999 * (Grain3 - (Grain - k) * (Grain - k) * (Grain - k))
           ]_vars

\* C17, reached: two animations run on the current rig; the newer commit has
\* set the seed and its animation has not advanced, and the scale on the rig
\* is a larger one, written since by the older animation.
C17_OlderWroteAfterReset ==
    /\ lastOp \in { "step.again", "step.last" }
    /\ model # 0
    /\ rigs[model].scale > Seed
    /\ \E old, new \in OnCurrentRig :
           /\ old.id < new.id
           /\ new.elapsed = 0
           /\ old.elapsed > 0

----------------------------------------------------------------------------
\* The life of the current rig.

\* A step in which initAR creates a rig (lines 159-164).
RigCreatedStep == renderer' # renderer
\* A step in which replaceWithSkeleton makes another object the current rig.
RigReplacedStep == lastOp' = "replaced" /\ inst' # inst

\* C18: the current rig is created once; it is replaced only before any
\* commit has fired; once a commit has fired the current rig is the same
\* object for ever, and only a click listener or an animation tick changes
\* its visibility, position, rotation or scale.
C18_RigLifecycle ==
    [][ /\ model # 0 => ~RigCreatedStep
        /\ popIns > 0 => ~RigCreatedStep /\ ~RigReplacedStep
        /\ (model # 0 /\ ~RigCreatedStep /\ ~RigReplacedStep /\ rigs'[model] # rigs[model])
               => (ListenerRan \/ TickRan) ]_vars

\* C18, reached: after a commit has fired, a further click on Start AR has
\* run initAR again: the current rig is a new hidden default box.
C18_NewRigAfterCommit ==
    /\ lastOp = "initAR"
    /\ popIns > 0
    /\ renderer > 1
    /\ rigs[model].kind = "box"
    /\ ~rigs[model].visible
    /\ ~rigs[model].committed

\* No animation is registered or running.
NoAnimation == rafQueue = << >> /\ frameCallbacks = << >>

\* C19: whatever commits have fired, and whenever, from some moment on no
\* animation is scheduled and the scale of the current rig is exactly 1.0
\* for ever; and a rig whose scale is not 1.0 has an animation scheduled
\* that will write it.
C19_RaceEndsAtOne ==
    /\ [](model # 0 /\ rigs[model].scale # One => OnCurrentRig # {})
    /\ <>[](NoAnimation /\ (model # 0 => rigs[model].scale = One))

\* C19, reached: MaxAnims commits have fired on the current rig, every
\* animation has ended and the scale is 1.0.
C19_SettledAtOne ==
    /\ lastOp = "step.last"
    /\ popIns = MaxAnims
    /\ NoAnimation
    /\ model # 0
    /\ rigs[model].committed
    /\ rigs[model].scale = One

\* C20: at most one click listener is registered on window, and a listener
\* that runs with the reticle visible is the only one its click runs: the
\* click makes one placement and starts one pop-in, on the current rig.
C20_OnePlacementPerClick ==
    [][ /\ clickListeners' <= 1
        /\ (ListenerRan /\ reticle.visible) =>
              /\ dispatch' = 0
              /\ popIns' = popIns + 1
              /\ rafQueue'[Len(rafQueue')].mesh = model ]_vars

\* C20, reached: two listeners are registered and one click has run both,
\* each placing the current rig and starting a pop-in of its own.
C20_TwoPlacementsByOneClick ==
    /\ clickListeners = 2
    /\ lastOp = "commit.fired"
    /\ dispatch = 0
    /\ popIns = 2
    /\ Len(rafQueue) = 2
    /\ \A c \in 1..2 : rafQueue[c].mesh = model /\ rafQueue[c].elapsed = 0

\* What the most recent selection calls for: its image if the file decoded,
\* no image otherwise.
ImageOf(sel) ==
    IF sel.files # << >> /\ sel.files[1].decodes
    THEN << sel.files[1].image >>
    ELSE << >>

\* C21: when a step of the upload leaves no load pending, uploadedImage is
\* the image of the most recently selected file if it decoded and null
\* otherwise (no file, or the decode failed), whatever the order in which
\* the load and error callbacks arrived, and Start AR is enabled exactly when
\* uploadedImage is not null.
C21_LatestSelectionWins ==
    [][ /\ (loading # << >> /\ loading' = << >>) =>
              /\ uploadedImage' = ImageOf(loading[Len(loading)])
              /\ startARBtnDisabled' <=> (uploadedImage' = << >>)
        /\ (lastOp' = "upload.none" /\ loading = << >>) =>
              /\ uploadedImage' = << >>
              /\ startARBtnDisabled' ]_vars

\* C21, reached: a file was selected and, while its load was pending, the
\* selection was cleared: no image, Start AR disabled, and the load of the
\* earlier selection, which will decode, still to come.
C21_EarlierLoadPending ==
    /\ Len(loading) = 2
    /\ loading[1].pending /\ loading[1].files[1].decodes
    /\ ~loading[2].pending /\ loading[2].files = << >>
    /\ uploadedImage = << >>
    /\ startARBtnDisabled

====
